---- MODULE Spec2Model ----
(***************************************************************************)
(* CreditRSIEnv (src/Untitled26.ipynb): the episodic CDS trading           *)
(* environment, its reset and step operations.                             *)
(*                                                                         *)
(* Number representation.  Prices are counted in ticks of                  *)
(* 1/transaction_cost_rate_den of a basis point, so that every amount of   *)
(* money the environment computes (mark-to-market, transaction cost,       *)
(* penalties) is an integer and the arithmetic is exact.                   *)
(* A raised Python exception is recorded in ret.raised; the assignments    *)
(* the method made before raising stay in the state.                       *)
(* ret is what the last call handed back; episode_done is the done flag    *)
(* the caller holds since the last reset (the `while not done` loop of the *)
(* evaluation), the environment itself keeps no such field.                *)
(* rng is the state of the process-wide `random` module, np_random the     *)
(* seed of the generator gymnasium keeps in the instance, seed_start the   *)
(* start index and first observation the caller last got from              *)
(* reset(seed=S), per seed S, and other a second instance living in the    *)
(* same process (make_vec_env with n_envs > 1).                            *)
(***************************************************************************)
EXTENDS Integers, Sequences, FiniteSets, TLC

VARIABLES df, current_step, balance, shares_held, episode_history, ret, episode_done,
          rng, np_random, seed_start, other,
          data, trade_log, signal_series, filtered

vars == <<df, current_step, balance, shares_held, episode_history, ret, episode_done,
          rng, np_random, seed_start, other,
          data, trade_log, signal_series, filtered>>

\* the state of CreditRSIEnv and of its process
env == <<df, current_step, balance, shares_held, episode_history, ret, episode_done,
         rng, np_random, seed_start, other>>

\* the state of the two scripts: PutOptionStrategy and filter_signals
scripts == <<data, trade_log, signal_series, filtered>>

(* ---------------- bounds of the model ---------------- *)
\* steps the caller makes in one episode under Spec
MaxEpisodeSteps == 4
\* steps the caller makes in one episode under SpecLong
MaxLongSteps == 11
\* rows of the long series beyond the shortest one that has a random start
ExtraRows == 2
\* states of the `random` module's generator
RngStates == 3
\* seeds the caller passes to reset: 1 .. MaxSeed, or none
MaxSeed == 1
\* rows of the frame given to PutOptionStrategy
PutRows == 5
\* maturity_days given to run_strategy: 1 .. MaxMaturity
MaxMaturity == 3
\* length of the series given to filter_signals: 0 .. MaxSignalLen
MaxSignalLen == 5

(* ---------------- configuration (constructor arguments) ---------------- *)
window == 14
initial_balance == 10000
transaction_cost_rate_num == 5
transaction_cost_rate_den == 10000
dv01_per_unit == 100000
_max_shares == 10
min_episode_rows == 100

\* money per unit of exposure per tick of spread movement
PnlPerTick == dv01_per_unit \div transaction_cost_rate_den

\* variant: the rate applied to the balance
transaction_cost_on_balance ==
    (initial_balance * transaction_cost_rate_num) \div transaction_cost_rate_den

\* transaction_cost_per_unit = dv01_per_unit * transaction_cost_rate
transaction_cost_per_unit ==
    (dv01_per_unit * transaction_cost_rate_num) \div transaction_cost_rate_den

Hold == 0
BuyProtection == 1
SellProtection == 2
Actions == {Hold, BuyProtection, SellProtection}

NoValue == <<>>

\* the seed argument of reset: 0 stands for seed=None, the default
None == 0
SeedArgs == {None} \cup (1 .. MaxSeed)

(* ---------------- the series (self.df) ---------------- *)
len(d) == Cardinality(DOMAIN d)

\* gains and losses of the last n differences up to row i
RECURSIVE SumGain(_, _, _)
SumGain(p, i, n) ==
    IF n = 0 \/ i = 0 THEN 0
    ELSE SumGain(p, i - 1, n - 1) + (IF p[i] > p[i - 1] THEN p[i] - p[i - 1] ELSE 0)

RECURSIVE SumLoss(_, _, _)
SumLoss(p, i, n) ==
    IF n = 0 \/ i = 0 THEN 0
    ELSE SumLoss(p, i - 1, n - 1) + (IF p[i] < p[i - 1] THEN p[i - 1] - p[i] ELSE 0)

\* calculate_rsi: fewer than `window` differences, or no movement at all,
\* give NaN, filled with 50; no loss gives 100, no gain gives 0.  The
\* exponentially weighted means are replaced by the means of the last
\* `window` differences, and the value is cut to an integer.
calculate_rsi(p, i) ==
    LET g == SumGain(p, i, window)
        l == SumLoss(p, i, window)
    IN  IF i < window \/ g + l = 0 THEN 50 ELSE (100 * g) \div (g + l)

\* the frame the constructor keeps: price, rsi, spread_change per row
MakeDf(p) ==
    [i \in DOMAIN p |->
        [price |-> p[i],
         rsi |-> calculate_rsi(p, i),
         spread_change |-> IF i = 0 THEN 0 ELSE p[i] - p[i - 1]]]

\* the warm-up rows 0 .. window + 1 of every series
WarmUp(i) == 800000 + 100 * (i % 2)

RECURSIVE TailPrice(_, _)
TailPrice(tail, k) ==
    IF k = 0 THEN WarmUp(window + 1) ELSE TailPrice(tail, k - 1) + tail[k]

\* prices of a short series: the warm-up, then the rows whose successive
\* differences are `tail`
Prices(tail) ==
    [i \in 0 .. (window + 1 + Len(tail)) |->
        IF i <= window + 1 THEN WarmUp(i) ELSE TailPrice(tail, i - (window + 1))]

ShortTails ==
    { <<>>,
      <<0>>,
      <<0, 10000>>,
      <<0, 0, -300, 150>>,
      <<0, 0, -600, 600>>,
      <<0, -1200, 1200>>,
      <<0, -495, 0>>,
      <<0, 300, -700>>,
      <<0, 4000000>> }

\* prices of a long series of `rows` rows after the warm-up: a fall of `drop`
\* at the second of them and a rise of `rise` at the fourth
LongPrices(rows, drop, rise) ==
    [i \in 0 .. (window + 1 + rows) |->
        IF i <= window + 1 THEN WarmUp(i)
        ELSE WarmUp(window + 1)
               - (IF i >= window + 3 THEN drop ELSE 0)
               + (IF i >= window + 5 THEN rise ELSE 0)]

LongRows == min_episode_rows + ExtraRows

SeriesSet ==
    { MakeDf(Prices(t)) : t \in ShortTails }
        \cup { MakeDf(LongPrices(LongRows, 300, 500)) }

\* a flat series one row short of a random start
FlatSeries == MakeDf(LongPrices(min_episode_rows - 1, 0, 0))

\* frames the constructor refuses: no row, one row, window + 1 rows
TooShort == { MakeDf([i \in 0 .. (n - 1) |-> WarmUp(i)]) : n \in {0, 1, window + 1} }

\* variant: one row less is accepted
AcceptsOneLess(d) == len(d) >= window + 1

\* __init__: the two length tests on the frame
Accepts(d) == ~(len(d) = 0) /\ ~(len(d) < window + 2)

max_steps == len(df) - 1

(* ---------------- helpers of step and reset ---------------- *)
Abs(x) == IF x < 0 THEN -x ELSE x

RECURSIVE Ulp32(_, _)
Ulp32(a, q) == IF a < 16777216 * q THEN q ELSE Ulp32(a, 2 * q)

\* np.float32 of an integral value: 24 significant bits, ties to even
Float32(x) ==
    LET a == Abs(x)
        q == Ulp32(a, 1)
        lo == (a \div q) * q
        r == a - lo
        up == IF 2 * r > q \/ (2 * r = q /\ (a \div q) % 2 = 1) THEN lo + q ELSE lo
    IN  IF x < 0 THEN -up ELSE up

Raised(op, exc) ==
    [op |-> op, raised |-> exc, obs |-> NoValue, reward |-> 0, done |-> FALSE,
     truncated |-> FALSE, info |-> NoValue]

\* variant: the row read is the one before idx
_get_obs_stale(d, idx, sh, bal) ==
    <<d[idx - 1].price, d[idx - 1].rsi, Float32(sh), Float32(bal), d[idx - 1].spread_change>>

\* _get_obs: the row at idx and the account, as a float32 vector (the columns
\* of the frame stay in ticks: their float32 rounding, a fraction of a tick,
\* is not represented)
_get_obs(d, idx, sh, bal) ==
    <<d[idx].price, d[idx].rsi, Float32(sh), Float32(bal), d[idx].spread_change>>

\* variant: the price difference taken the wrong way round
MarkToMarketReversed(sh, previous_spread, current_spread) ==
    sh * (previous_spread - current_spread) * PnlPerTick

\* P&L of the open position over one row
MarkToMarket(sh, previous_spread, current_spread) ==
    sh * (current_spread - previous_spread) * PnlPerTick

\* variant: closing a long position is not charged
ApplyActionFreeClose(action, bal, sh) ==
    IF action = BuyProtection /\ bal >= transaction_cost_per_unit
    THEN [balance |-> bal - transaction_cost_per_unit, shares_held |-> sh + 1,
          transaction_made |-> TRUE]
    ELSE IF action = SellProtection /\ sh > 0
    THEN [balance |-> bal, shares_held |-> sh - 1, transaction_made |-> TRUE]
    ELSE IF action = SellProtection /\ bal >= transaction_cost_per_unit
    THEN [balance |-> bal - transaction_cost_per_unit, shares_held |-> sh - 1,
          transaction_made |-> TRUE]
    ELSE [balance |-> bal, shares_held |-> sh, transaction_made |-> FALSE]

\* variant: selling with a long position closes all of it at once
ApplyActionCloseAll(action, bal, sh) ==
    IF action = BuyProtection /\ bal >= transaction_cost_per_unit
    THEN [balance |-> bal - transaction_cost_per_unit, shares_held |-> sh + 1,
          transaction_made |-> TRUE]
    ELSE IF action = SellProtection /\ sh > 0
    THEN [balance |-> bal - transaction_cost_per_unit, shares_held |-> 0,
          transaction_made |-> TRUE]
    ELSE IF action = SellProtection /\ bal >= transaction_cost_per_unit
    THEN [balance |-> bal - transaction_cost_per_unit, shares_held |-> sh - 1,
          transaction_made |-> TRUE]
    ELSE [balance |-> bal, shares_held |-> sh, transaction_made |-> FALSE]

\* variant: closing a long position needs the balance to cover the cost
ApplyActionCloseNeedsBalance(action, bal, sh) ==
    IF action = BuyProtection /\ bal >= transaction_cost_per_unit
    THEN [balance |-> bal - transaction_cost_per_unit, shares_held |-> sh + 1,
          transaction_made |-> TRUE]
    ELSE IF action = SellProtection /\ bal >= transaction_cost_per_unit
    THEN [balance |-> bal - transaction_cost_per_unit, shares_held |-> sh - 1,
          transaction_made |-> TRUE]
    ELSE [balance |-> bal, shares_held |-> sh, transaction_made |-> FALSE]

\* variant: buying back a short position is not subject to the balance check
ApplyActionCoverAlways(action, bal, sh) ==
    IF action = BuyProtection /\ (sh < 0 \/ bal >= transaction_cost_per_unit)
    THEN [balance |-> bal - transaction_cost_per_unit, shares_held |-> sh + 1,
          transaction_made |-> TRUE]
    ELSE IF action = SellProtection /\ (sh > 0 \/ bal >= transaction_cost_per_unit)
    THEN [balance |-> bal - transaction_cost_per_unit, shares_held |-> sh - 1,
          transaction_made |-> TRUE]
    ELSE [balance |-> bal, shares_held |-> sh, transaction_made |-> FALSE]

\* variant: a step that holds an open position is charged the cost as carry
ApplyActionHoldCarry(action, bal, sh) ==
    IF action = BuyProtection /\ bal >= transaction_cost_per_unit
    THEN [balance |-> bal - transaction_cost_per_unit, shares_held |-> sh + 1,
          transaction_made |-> TRUE]
    ELSE IF action = SellProtection /\ (sh > 0 \/ bal >= transaction_cost_per_unit)
    THEN [balance |-> bal - transaction_cost_per_unit, shares_held |-> sh - 1,
          transaction_made |-> TRUE]
    ELSE IF action = Hold /\ sh # 0
    THEN [balance |-> bal - transaction_cost_per_unit, shares_held |-> sh,
          transaction_made |-> FALSE]
    ELSE [balance |-> bal, shares_held |-> sh, transaction_made |-> FALSE]

\* the transaction logic of step
ApplyAction(action, bal, sh) ==
    IF action = BuyProtection
    THEN IF bal >= transaction_cost_per_unit
         THEN [balance |-> bal - transaction_cost_per_unit, shares_held |-> sh + 1,
               transaction_made |-> TRUE]
         ELSE [balance |-> bal, shares_held |-> sh, transaction_made |-> FALSE]
    ELSE IF action = SellProtection
    THEN IF sh > 0
         THEN [balance |-> bal - transaction_cost_per_unit, shares_held |-> sh - 1,
               transaction_made |-> TRUE]
         ELSE IF sh <= 0 /\ bal >= transaction_cost_per_unit
         THEN [balance |-> bal - transaction_cost_per_unit, shares_held |-> sh - 1,
               transaction_made |-> TRUE]
         ELSE [balance |-> bal, shares_held |-> sh, transaction_made |-> FALSE]
    ELSE [balance |-> bal, shares_held |-> sh, transaction_made |-> FALSE]

\* variant: `if` in place of `elif`, a negative balance takes both penalties
PenaltiesBoth(bal, pnl) ==
    LET ruin == IF bal < 0 THEN (initial_balance * 5) \div 10 ELSE 0
        draw == IF 10 * bal < initial_balance * 5 THEN (initial_balance * 1) \div 10 ELSE 0
    IN  [done |-> (bal < 0 \/ 10 * bal < initial_balance * 5), reward |-> pnl - ruin - draw]

\* variant: the drawdown stop also fires at the threshold itself
PenaltiesInclusive(bal, pnl) ==
    IF bal < 0
    THEN [done |-> TRUE, reward |-> pnl - (initial_balance * 5) \div 10]
    ELSE IF 10 * bal <= initial_balance * 5
    THEN [done |-> TRUE, reward |-> pnl - (initial_balance * 1) \div 10]
    ELSE [done |-> FALSE, reward |-> pnl]

\* variant: the two fractions 0.5 and 0.1 exchanged
PenaltiesSwappedFractions(bal, pnl) ==
    IF bal < 0
    THEN [done |-> TRUE, reward |-> pnl - (initial_balance * 1) \div 10]
    ELSE IF 10 * bal < initial_balance * 1
    THEN [done |-> TRUE, reward |-> pnl - (initial_balance * 5) \div 10]
    ELSE [done |-> FALSE, reward |-> pnl]

\* reward shaping and termination of step
Penalties(bal, pnl) ==
    IF bal < 0
    THEN [done |-> TRUE, reward |-> pnl - (initial_balance * 5) \div 10]
    ELSE IF 10 * bal < initial_balance * 5
    THEN [done |-> TRUE, reward |-> pnl - (initial_balance * 1) \div 10]
    ELSE [done |-> FALSE, reward |-> pnl]

\* variant: the start may be the last warm-up row
\* variant: the action is applied first, the new position marked to market
StepOutcomeTradeFirst(action, bal, sh, previous_spread, current_spread) ==
    LET t == ApplyAction(action, bal, sh)
        pnl == MarkToMarket(t.shares_held, previous_spread, current_spread)
        e == Penalties(t.balance + pnl, pnl)
    IN  [balance |-> t.balance + pnl, shares_held |-> t.shares_held,
         reward |-> e.reward, done |-> e.done]

\* step between two rows: mark-to-market, then the action, then the reward
StepOutcome(action, bal, sh, previous_spread, current_spread) ==
    LET pnl == MarkToMarket(sh, previous_spread, current_spread)
        t == ApplyAction(action, bal + pnl, sh)
        e == Penalties(t.balance, pnl)
    IN  [balance |-> t.balance, shares_held |-> t.shares_held,
         reward |-> e.reward, done |-> e.done]

\* variant: the record is filled before the index is advanced
HistoryRecordIndexBefore(d, idx, action, t) ==
    [step |-> idx - 1, price |-> d[idx].price, rsi |-> d[idx].rsi,
     action |-> action, balance |-> t.balance,
     shares_held |-> t.shares_held, reward |-> t.reward]

\* the record step appends to episode_history
HistoryRecord(d, idx, action, t) ==
    [step |-> idx, price |-> d[idx].price, rsi |-> d[idx].rsi,
     action |-> action, balance |-> t.balance,
     shares_held |-> t.shares_held, reward |-> t.reward]

min_start_index_window == window

\* variant: the start is the row after the first row with a full warm-up
min_start_index_after == window + 2

min_start_index == window + 1

max_start_index == max_steps - min_episode_rows

\* the indices reset may choose
StartIndices ==
    IF max_start_index < min_start_index
    THEN {min_start_index}
    ELSE min_start_index .. max_start_index

\* random.randint(a, b) in generator state r, and the state it leaves
RandInt(r, a, b) == a + (r % (b - a + 1))

NextRng(r) == (r + 1) % RngStates

\* the index reset starts at in generator state r
StartIndex(r) ==
    IF max_start_index < min_start_index
    THEN min_start_index
    ELSE RandInt(r, min_start_index, max_start_index)

\* the generator state reset leaves
RngAfterReset(r) == IF max_start_index < min_start_index THEN r ELSE NextRng(r)

\* the fields of an instance right after its reset
FreshEpisode(start) ==
    [current_step |-> start, balance |-> initial_balance, shares_held |-> 0,
     episode_history |-> <<>>]

NotConstructed == [current_step |-> 0, balance |-> initial_balance, shares_held |-> 0,
                   episode_history |-> <<>>]

(* ---------------- the state machine ---------------- *)
\* __init__: accepts a frame of at least window + 2 rows and raises
\* ValueError on any other, in which case there is no instance to call
\* neither script has run
ScriptsIdle ==
    /\ data = <<>>
    /\ trade_log = <<>>
    /\ signal_series = <<>>
    /\ filtered = <<>>

Init ==
    /\ df \in SeriesSet \cup TooShort
    /\ current_step = 0
    /\ balance = initial_balance
    /\ shares_held = 0
    /\ episode_history = <<>>
    /\ ret = IF Accepts(df)
             THEN [op |-> "new", raised |-> "none", obs |-> NoValue, reward |-> 0,
                   done |-> FALSE, truncated |-> FALSE, info |-> NoValue]
             ELSE Raised("new", "ValueError")
    /\ episode_done = FALSE
    /\ rng \in 0 .. (RngStates - 1)
    /\ np_random = None
    /\ seed_start = [s \in 1 .. MaxSeed |-> NoValue]
    /\ other = NotConstructed
    /\ ScriptsIdle

Constructed == ~(ret.op = "new" /\ ret.raised # "none")

\* variant: the history of the previous episode is kept
ResetToKeepHistory(start) ==
    /\ balance' = initial_balance
    /\ shares_held' = 0
    /\ current_step' = start
    /\ ret' = [op |-> "reset", raised |-> "none",
               obs |-> _get_obs(df, start, 0, initial_balance),
               reward |-> 0, done |-> FALSE, truncated |-> FALSE,
               info |-> [initial_balance |-> initial_balance]]
    /\ episode_done' = FALSE
    /\ UNCHANGED <<df, episode_history>>

\* reset, with the index random.randint drew
ResetTo(start) ==
    /\ balance' = initial_balance
    /\ shares_held' = 0
    /\ episode_history' = <<>>
    /\ current_step' = start
    /\ ret' = IF start \in DOMAIN df
              THEN [op |-> "reset", raised |-> "none",
                    obs |-> _get_obs(df, start, 0, initial_balance),
                    reward |-> 0, done |-> FALSE, truncated |-> FALSE,
                    info |-> [initial_balance |-> initial_balance]]
              ELSE Raised("reset", "IndexError")
    /\ episode_done' = FALSE
    /\ UNCHANGED df

\* reset(seed): super().reset(seed=seed) seeds the instance's np_random, the
\* start index is drawn from the `random` module
Reset(seed) ==
    /\ Constructed
    /\ ResetTo(StartIndex(rng))
    /\ rng' = RngAfterReset(rng)
    /\ np_random' = IF seed = None THEN np_random ELSE seed
    /\ seed_start' = IF seed = None THEN seed_start
                     ELSE [seed_start EXCEPT ![seed] = <<current_step', ret'.obs>>]
    /\ UNCHANGED other
    /\ UNCHANGED scripts

reset == \E seed \in SeedArgs : Reset(seed)

StepBody(action) ==
    IF current_step \notin DOMAIN df
    THEN \* df.iloc[self.current_step] raises before anything is assigned
         /\ ret' = Raised("step", "IndexError")
         /\ UNCHANGED <<df, current_step, balance, shares_held, episode_history, episode_done>>
    ELSE IF current_step + 1 > max_steps
    THEN \* the index is advanced, then _get_obs reads past the last row
         /\ current_step' = current_step + 1
         /\ ret' = Raised("step", "IndexError")
         /\ UNCHANGED <<df, balance, shares_held, episode_history, episode_done>>
    ELSE LET previous_spread == df[current_step].price
             idx == current_step + 1
             current_spread == df[idx].price
             t == StepOutcome(action, balance, shares_held, previous_spread, current_spread)
             e == t
         IN  /\ current_step' = idx
             /\ balance' = t.balance
             /\ shares_held' = t.shares_held
             /\ episode_history' = Append(episode_history, HistoryRecord(df, idx, action, t))
             /\ ret' = [op |-> "step", raised |-> "none",
                        obs |-> _get_obs(df, idx, t.shares_held, t.balance),
                        reward |-> e.reward, done |-> e.done, truncated |-> FALSE,
                        info |-> [balance |-> t.balance, shares_held |-> t.shares_held,
                                  current_spread |-> current_spread]]
             /\ episode_done' = (episode_done \/ e.done)
             /\ UNCHANGED df

\* the caller resets before the first step and makes at most MaxEpisodeSteps
\* recorded steps per episode
step ==
    /\ ret.op # "new"
    /\ Len(episode_history) < MaxEpisodeSteps
    /\ \E action \in Actions : StepBody(action)
    /\ UNCHANGED <<rng, np_random, seed_start, other>>
    /\ UNCHANGED scripts

Next == reset \/ step

Spec == Init /\ [][Next]_vars

(* ---------------- a long episode on a flat series ---------------- *)
InitLong ==
    /\ df = FlatSeries
    /\ current_step = 0
    /\ balance = initial_balance
    /\ shares_held = 0
    /\ episode_history = <<>>
    /\ ret = [op |-> "new", raised |-> "none", obs |-> NoValue, reward |-> 0,
              done |-> FALSE, truncated |-> FALSE, info |-> NoValue]
    /\ episode_done = FALSE
    /\ rng = 0
    /\ np_random = None
    /\ seed_start = [s \in 1 .. MaxSeed |-> NoValue]
    /\ other = NotConstructed
    /\ ScriptsIdle

\* the caller makes at most MaxLongSteps recorded steps per episode
stepLong ==
    /\ ret.op # "new"
    /\ Len(episode_history) < MaxLongSteps
    /\ \E action \in Actions : StepBody(action)
    /\ UNCHANGED <<rng, np_random, seed_start, other>>
    /\ UNCHANGED scripts

resetLong == Reset(None)

NextLong == resetLong \/ stepLong

SpecLong == InitLong /\ [][NextLong]_vars

(* ---------------- an unrestricted caller, two instances ---------------- *)
\* action values outside the action space
InvalidActions == {-1, 3}

\* step called with a value outside {0, 1, 2}
step_invalid ==
    /\ ret.op # "new"
    /\ Len(episode_history) < MaxEpisodeSteps
    /\ \E action \in InvalidActions : StepBody(action)
    /\ UNCHANGED <<rng, np_random, seed_start, other>>
    /\ UNCHANGED scripts

\* reset() of the second instance, built on the same frame in the same
\* process: its own fields, and the `random` module both instances draw from
\* (its step reads and writes its own fields only)
other_reset ==
    /\ Constructed
    /\ other' = FreshEpisode(StartIndex(rng))
    /\ rng' = RngAfterReset(rng)
    /\ UNCHANGED <<df, current_step, balance, shares_held, episode_history, ret,
                   episode_done, np_random, seed_start>>
    /\ UNCHANGED scripts

NextOpen == reset \/ step \/ step_invalid \/ other_reset

SpecOpen == Init /\ [][NextOpen]_vars

(* ---------------- PutOptionStrategy.run_strategy ---------------- *)
\* no CreditRSIEnv exists in the process of a script
EnvAbsent ==
    /\ df = <<>>
    /\ current_step = 0
    /\ balance = initial_balance
    /\ shares_held = 0
    /\ episode_history = <<>>
    /\ ret = Raised("new", "ValueError")
    /\ episode_done = FALSE
    /\ rng = 0
    /\ np_random = None
    /\ seed_start = [s \in 1 .. MaxSeed |-> NoValue]
    /\ other = NotConstructed

\* strictly increasing date indices of PutRows rows
DateIndices ==
    { d \in [1 .. PutRows -> 1 .. (PutRows + 1)] :
        \A r \in 1 .. (PutRows - 1) : d[r] < d[r + 1] }

\* frames with a date index and a signal column (price and volatility only
\* enter the option's price, which decides nothing in run_strategy)
PutFrames ==
    { [r \in 1 .. PutRows |-> [date |-> d[r], signal |-> g[r]]] :
        d \in DateIndices, g \in [1 .. PutRows -> {0, 1}] }

\* the position run_strategy creates at row i (counted from 0)
Position(d, i, maturity_days) ==
    [entry_date |-> d[i + 1].date, expiry_date |-> d[i + maturity_days + 1].date,
     maturity_days |-> maturity_days]

\* the loop of run_strategy from row i (counted from 0) on; its value is the
\* trade log at the end of the loop
RECURSIVE run_strategy_loop(_, _, _, _, _)
run_strategy_loop(d, maturity_days, i, active_positions, log) ==
    IF i >= Len(d)
    THEN log
    ELSE IF i + maturity_days >= Len(d)
    THEN run_strategy_loop(d, maturity_days, i + 1, active_positions, log)
    ELSE LET active == SelectSeq(active_positions,
                           LAMBDA p : d[i + maturity_days + 1].date < p.expiry_date)
         IN  IF d[i + 1].signal = 1 /\ active = <<>>
             THEN run_strategy_loop(d, maturity_days, i + 1,
                      Append(active, Position(d, i, maturity_days)),
                      Append(log, Position(d, i, maturity_days)))
             ELSE run_strategy_loop(d, maturity_days, i + 1, active, log)

InitPut ==
    /\ EnvAbsent
    /\ data \in PutFrames
    /\ trade_log = <<>>
    /\ signal_series = <<>>
    /\ filtered = <<>>

\* strategy.run_strategy(maturity_days=...): the fields the later passes add
\* to each trade (expiry_price, final_intrinsic, net_pnl) leave its dates
run_strategy ==
    /\ \E maturity_days \in 1 .. MaxMaturity :
           trade_log' = run_strategy_loop(data, maturity_days, 0, <<>>, <<>>)
    /\ UNCHANGED <<data, signal_series, filtered>>
    /\ UNCHANGED env

NextPut == run_strategy

SpecPut == InitPut /\ [][NextPut]_vars

(* ---------------- filter_signals ---------------- *)
\* the series filter_signals is given
SignalSeries ==
    UNION { [1 .. n -> {-1, 0, 1}] : n \in 0 .. MaxSignalLen }

RECURSIVE filter_signals_prev_input_loop(_, _, _, _)
filter_signals_prev_input_loop(series, k, prev, out) ==
    IF k > Len(series)
    THEN out
    ELSE LET val == series[k]
         IN  IF val = 1 /\ prev # 1
             THEN filter_signals_prev_input_loop(series, k + 1, val, Append(out, 1))
             ELSE IF val = -1 /\ prev # -1
             THEN filter_signals_prev_input_loop(series, k + 1, val, Append(out, -1))
             ELSE filter_signals_prev_input_loop(series, k + 1, val, Append(out, 0))

\* variant: prev follows the input value, not the last signal let through
filter_signals_prev_input(series) == filter_signals_prev_input_loop(series, 1, 0, <<>>)

\* the loop of filter_signals from element k on
RECURSIVE filter_signals_loop(_, _, _, _)
filter_signals_loop(series, k, prev, out) ==
    IF k > Len(series)
    THEN out
    ELSE LET val == series[k]
         IN  IF val = 1 /\ prev # 1
             THEN filter_signals_loop(series, k + 1, 1, Append(out, 1))
             ELSE IF val = -1 /\ prev # -1
             THEN filter_signals_loop(series, k + 1, -1, Append(out, -1))
             ELSE filter_signals_loop(series, k + 1, prev, Append(out, 0))

filter_signals(series) == filter_signals_loop(series, 1, 0, <<>>)

InitFilter ==
    /\ EnvAbsent
    /\ data = <<>>
    /\ trade_log = <<>>
    /\ signal_series \in SignalSeries
    /\ filtered = <<>>

\* filtered_signal = filter_signals(signal)
call_filter_signals ==
    /\ filtered' = filter_signals(signal_series)
    /\ UNCHANGED <<data, trade_log, signal_series>>
    /\ UNCHANGED env

NextFilter == call_filter_signals

SpecFilter == InitFilter /\ [][NextFilter]_vars


(* ======================= the claims ======================= *)
\* what the claims read off a transition made by step
IsStep == ret'.op = "step"

Returned == ret'.op = "step" /\ ret'.raised = "none"

\* the mark-to-market of the transition, from the rows it moves between
StepPnl ==
    shares_held * (df[current_step'].price - df[current_step].price)
        * (dv01_per_unit \div transaction_cost_rate_den)

Cost == (dv01_per_unit * transaction_cost_rate_num) \div transaction_cost_rate_den

\* what the claims read off the history of the episode
SharesAfter(h, k) == IF k = 0 THEN 0 ELSE h[k].shares_held

RecordPnl(d, h, k) ==
    SharesAfter(h, k - 1) * (d[h[k].step].price - d[h[k].step - 1].price)
        * (dv01_per_unit \div transaction_cost_rate_den)

RECURSIVE SumPnl(_, _, _)
SumPnl(d, h, k) == IF k = 0 THEN 0 ELSE SumPnl(d, h, k - 1) + RecordPnl(d, h, k)

RECURSIVE Trades(_, _)
Trades(h, k) ==
    IF k = 0 THEN 0
    ELSE Trades(h, k - 1) + (IF SharesAfter(h, k) # SharesAfter(h, k - 1) THEN 1 ELSE 0)

LastShares == SharesAfter(episode_history, Len(episode_history))

PrevShares == SharesAfter(episode_history, Len(episode_history) - 1)

StepReturned == ret.op = "step" /\ ret.raised = "none" /\ Len(episode_history) > 0

\* C1: shares_held stays within [-max_units, max_units] in every reachable
\* state, whatever valid actions step is given after a reset.
C1_SharesWithinMaxUnits == shares_held \in (-_max_shares) .. _max_shares

\* C2: once a step has returned done=true, a further step before the next
\* reset leaves current_step, shares_held, balance and the history unchanged
\* (stated for the further steps that return; the step that runs out of data
\* is the subject of C3).
C2_NoMutationAfterDone ==
    [][(episode_done /\ Returned)
         => UNCHANGED <<current_step, shares_held, balance, episode_history>>]_vars

\* C3: a step called with current_step on the last row returns done=true,
\* reward 0 and an observation without raising, and leaves balance and
\* shares_held unchanged.
C3_LastRowStepReturnsDone ==
    [][(current_step = max_steps /\ IsStep)
         => /\ ret'.raised = "none"
            /\ ret'.done
            /\ ret'.reward = 0
            /\ ret'.obs # NoValue
            /\ UNCHANGED <<balance, shares_held>>]_vars

\* C4: current_step is at most the last index of the series in every state,
\* and no step decreases it.
C4_IndexBoundedAndMonotone ==
    [][/\ current_step' <= max_steps
       /\ (IsStep => current_step' >= current_step)]_vars

C6_CostIffPositionChange ==
    [][IsStep =>
         IF ret'.raised = "none"
         THEN /\ (shares_held' # shares_held) <=> (balance' = balance + StepPnl - Cost)
              /\ (shares_held' = shares_held) <=> (balance' = balance + StepPnl)
         ELSE UNCHANGED <<balance, shares_held>>]_vars

\* a long position closed in the step whose mark-to-market left less than the cost
C6_Witness ==
    /\ StepReturned
    /\ ret.info.shares_held = PrevShares - 1
    /\ PrevShares > 0
    /\ balance < 0

\* C7: shares_held after a step differs from shares_held before it by at
\* most 1.
C7_PositionChangesByAtMostOne ==
    [][IsStep => (shares_held' - shares_held) \in {-1, 0, 1}]_vars

C7_Witness ==
    /\ StepReturned
    /\ Len(episode_history) >= 2
    /\ LastShares = PrevShares + 1
    /\ PrevShares < 0

\* C8: a step whose resulting balance is below zero returns done=true with
\* reward = pnl - 0.5 * initial_balance; in no step are the ruin and the
\* drawdown penalty both applied.
C8_RuinPrecedence ==
    [][Returned =>
         /\ (balance' < 0 =>
               /\ ret'.done
               /\ 2 * (StepPnl - ret'.reward) = initial_balance)
         /\ 10 * (StepPnl - ret'.reward) \in {0, initial_balance, 5 * initial_balance}]_vars

C8_Witness ==
    /\ StepReturned
    /\ balance < 0
    /\ ret.done
    /\ ret.reward < 0

\* C9: a step that does not run out of data returns done=true exactly when
\* the post-action balance is below 0.5 * initial_balance; with
\* 0 <= balance < threshold the reward is pnl - 0.1 * initial_balance; at or
\* above the threshold done=false and reward = pnl.
C9_DrawdownStop ==
    [][Returned =>
         /\ ret'.done = (2 * balance' < initial_balance)
         /\ ((balance' >= 0 /\ 2 * balance' < initial_balance)
               => (10 * (StepPnl - ret'.reward) = initial_balance))
         /\ ((2 * balance' >= initial_balance) => (ret'.reward = StepPnl))]_vars

C9_Witness ==
    /\ StepReturned
    /\ balance >= 0
    /\ 2 * balance < initial_balance
    /\ ret.done

\* the threshold itself: balance exactly 0.5 * initial_balance does not stop
C9_WitnessAtThreshold ==
    /\ StepReturned
    /\ 2 * balance = initial_balance
    /\ ~ret.done

\* C10: reset, in any state, sets balance = initial_balance, shares_held = 0,
\* the episode to not-done and the history to empty, and returns info holding
\* initial_balance.
C10_ResetRestoresAccount ==
    [][ret'.op = "reset" =>
         /\ balance' = initial_balance
         /\ shares_held' = 0
         /\ episode_history' = <<>>
         /\ ~episode_done'
         /\ current_step' \in DOMAIN df
         /\ ret'.raised = "none"
         /\ ret'.info = [initial_balance |-> initial_balance]]_vars

\* the state a reset leaves
C10_Witness ==
    /\ ret.op = "reset"
    /\ balance = initial_balance
    /\ shares_held = 0
    /\ episode_history = <<>>
    /\ current_step \in DOMAIN df

\* C11: after reset the starting index lies in [min_start, max_start] with
\* min_start = window + 1 and max_start = (last index) - 100, so that at least
\* 100 rows follow it; when max_start < min_start it is exactly min_start.
C11_StartIndexInRange ==
    ret.op = "reset" =>
        IF (len(df) - 1) - min_episode_rows < window + 1
        THEN current_step = window + 1
        ELSE /\ window + 1 <= current_step
             /\ current_step <= (len(df) - 1) - min_episode_rows
             /\ current_step + min_episode_rows \in DOMAIN df

\* a start drawn from the range, above its lower end
C11_Witness ==
    /\ ret.op = "reset"
    /\ current_step > window + 1
    /\ current_step + min_episode_rows \in DOMAIN df

\* the fallback: fewer than 100 rows follow the start
C11_WitnessFallback ==
    /\ ret.op = "reset"
    /\ current_step = window + 1
    /\ (current_step + min_episode_rows) \notin DOMAIN df

\* C12: two calls reset(seed=S) with the same seed on the same series yield
\* the same starting index and the same first observation, whatever happened
\* between them.
C12_SameSeedSameStart ==
    [][\A s \in 1 .. MaxSeed :
         (seed_start[s] # NoValue) => (seed_start'[s] = seed_start[s])]_vars

\* C14: a series of fewer than window + 2 rows is rejected with an error at
\* construction, so no episode is ever started on it.
C14_ShortSeriesRejected ==
    (len(df) < window + 2) =>
        /\ ret.op = "new"
        /\ ret.raised = "ValueError"
        /\ current_step = 0
        /\ episode_history = <<>>

C14_Witness ==
    /\ len(df) = window + 1
    /\ ret.op = "new"
    /\ ret.raised = "ValueError"

\* C13: step called with an action outside {0, 1, 2} fails with an error and
\* leaves current_step, shares_held, balance and the history unchanged
\* (stated for the calls made before the last row; the step on the last row
\* is the subject of C3).
C13_InvalidActionRejected ==
    [][\A a \in InvalidActions :
         (current_step < max_steps /\ StepBody(a))
           => /\ ret'.raised # "none"
              /\ UNCHANGED <<current_step, shares_held, balance, episode_history>>]_vars

\* C16: instances share no mutable state: a call on another instance leaves
\* this instance, and the start index its next reset gets, as they would be
\* had it run alone.
C16_InstancesIndependent ==
    [][other_reset
         => /\ StartIndex(rng') = StartIndex(rng)
            /\ UNCHANGED <<current_step, shares_held, balance, episode_history>>]_vars

\* C15: with initial_balance 10000 and cost_per_unit 50, from shares_held 0
\* and balance 10000 a BuyProtection step with no price change gives balance
\* 9950, shares_held 1, reward 0, done false; a following Hold step with price
\* delta +1 gives balance 109950, shares_held 1, reward 100000.
C15_FirstIsFlatBuy ==
    /\ Len(episode_history) >= 1
    /\ episode_history[1].action = BuyProtection
    /\ df[episode_history[1].step].price = df[episode_history[1].step - 1].price

C15_SecondIsHoldPlusOne ==
    /\ Len(episode_history) >= 2
    /\ episode_history[2].action = Hold
    /\ df[episode_history[2].step].price - df[episode_history[2].step - 1].price
         = transaction_cost_rate_den

C15_Scenario ==
    /\ C15_FirstIsFlatBuy =>
         /\ episode_history[1].balance = 9950
         /\ episode_history[1].shares_held = 1
         /\ episode_history[1].reward = 0
         /\ (Len(episode_history) = 1 /\ StepReturned)
              => (~ret.done /\ balance = 9950 /\ shares_held = 1 /\ ret.reward = 0)
    /\ (C15_FirstIsFlatBuy /\ C15_SecondIsHoldPlusOne) =>
         /\ episode_history[2].balance = 109950
         /\ episode_history[2].shares_held = 1
         /\ episode_history[2].reward = 100000
         /\ (Len(episode_history) = 2 /\ StepReturned)
              => (balance = 109950 /\ shares_held = 1 /\ ret.reward = 100000)

C15_Witness ==
    /\ C15_FirstIsFlatBuy
    /\ C15_SecondIsHoldPlusOne
    /\ Len(episode_history) = 2
    /\ StepReturned

\* C17: every episode terminates: after reset at index s some step returns
\* done=true within (max_steps - s + 1) step calls, that is, by the time
\* current_step has passed the last row.
C17_EpisodeTerminates ==
    (ret.op = "step" /\ current_step > max_steps) => episode_done

\* C18 as stated: the observation of a step that does not run out of data is
\* [price, indicator, shares_held after, balance after, price_delta] at the
\* new index; truncated is false and info carries the same balance and
\* shares_held.
C18_ObservationExact ==
    [][Returned =>
         /\ ret'.obs = <<df[current_step'].price, df[current_step'].rsi, shares_held',
                         balance', df[current_step'].price - df[current_step].price>>
         /\ ret'.truncated = FALSE
         /\ ret'.info.balance = balance'
         /\ ret'.info.shares_held = shares_held']_vars

\* C18, amended: the observation holds the float32 values of shares_held and
\* balance after the action (24 significant bits), with the row of the new
\* index and the price difference to the previous index; truncated is false
\* and info carries the exact balance and shares_held.
C18_ObservationFloat32 ==
    [][Returned =>
         /\ ret'.obs = <<df[current_step'].price, df[current_step'].rsi,
                         Float32(shares_held'), Float32(balance'),
                         df[current_step'].price - df[current_step].price>>
         /\ ret'.truncated = FALSE
         /\ ret'.info.balance = balance'
         /\ ret'.info.shares_held = shares_held']_vars

\* a balance float32 cannot hold
C18_Witness ==
    /\ StepReturned
    /\ ret.obs[4] # balance
    /\ ret.info.balance = balance

\* C19: the mark-to-market is computed with the position held before the
\* step's action and added to balance before the action is applied; the
\* reward before termination penalties equals it and carries no transaction
\* cost.
C19_MarkToMarketBeforeAction ==
    [][Returned =>
         LET a == episode_history'[Len(episode_history')].action
             marked == balance + StepPnl
         IN  /\ 10 * (StepPnl - ret'.reward)
                  = (IF balance' < 0 THEN 5 * initial_balance
                     ELSE IF 2 * balance' < initial_balance THEN initial_balance ELSE 0)
             /\ (balance' - marked) \in {0, -Cost}
             /\ (a = BuyProtection) => ((shares_held' = shares_held + 1) = (marked >= Cost))]_vars

\* a trade in a step with a P&L: the reward is the P&L, the balance moved by
\* the P&L less the cost
C19_Witness ==
    /\ StepReturned
    /\ LastShares # PrevShares
    /\ ~ret.done
    /\ ret.reward > 0
    /\ Len(episode_history) >= 2
    /\ balance - episode_history[Len(episode_history) - 1].balance = ret.reward - Cost

\* C20: SellProtection with shares_held > 0 always deducts cost_per_unit and
\* decrements shares_held, even with a balance below the cost; with
\* shares_held <= 0 it does so only when balance >= cost_per_unit and
\* otherwise changes neither.
C20_SellProtection ==
    [][(Returned /\ episode_history'[Len(episode_history')].action = SellProtection) =>
         LET marked == balance + StepPnl
         IN  IF shares_held > 0
             THEN shares_held' = shares_held - 1 /\ balance' = marked - Cost
             ELSE IF marked >= Cost
             THEN shares_held' = shares_held - 1 /\ balance' = marked - Cost
             ELSE shares_held' = shares_held /\ balance' = marked]_vars

LastAction == episode_history[Len(episode_history)].action

\* a long position closed on a balance below the cost
C20_Witness ==
    /\ StepReturned
    /\ LastAction = SellProtection
    /\ PrevShares > 0
    /\ LastShares = PrevShares - 1
    /\ balance + Cost < Cost

\* a short position not extended for lack of balance
C20_WitnessRefused ==
    /\ StepReturned
    /\ LastAction = SellProtection
    /\ PrevShares <= 0
    /\ LastShares = PrevShares
    /\ balance < Cost

\* C21: BuyProtection deducts cost_per_unit and increments shares_held exactly
\* when the balance after this step's mark-to-market is at least
\* cost_per_unit, whatever the sign of shares_held; otherwise neither balance
\* nor shares_held changes beyond the mark-to-market.
C21_BuyProtection ==
    [][(Returned /\ episode_history'[Len(episode_history')].action = BuyProtection) =>
         LET marked == balance + StepPnl
         IN  IF marked >= Cost
             THEN shares_held' = shares_held + 1 /\ balance' = marked - Cost
             ELSE shares_held' = shares_held /\ balance' = marked]_vars

\* a short position not bought back for lack of balance
C21_Witness ==
    /\ StepReturned
    /\ LastAction = BuyProtection
    /\ PrevShares < 0
    /\ LastShares = PrevShares
    /\ balance < Cost

\* a short position bought back
C21_WitnessCover ==
    /\ StepReturned
    /\ LastAction = BuyProtection
    /\ PrevShares < 0
    /\ LastShares = PrevShares + 1

\* C22: a Hold step leaves shares_held unchanged and changes balance by
\* exactly the step's mark-to-market pnl.
C22_Hold ==
    [][(Returned /\ episode_history'[Len(episode_history')].action = Hold) =>
         /\ shares_held' = shares_held
         /\ balance' = balance + StepPnl]_vars

\* a Hold step with an open position over a price move
C22_Witness ==
    /\ StepReturned
    /\ LastAction = Hold
    /\ PrevShares # 0
    /\ LastShares = PrevShares
    /\ df[current_step].price # df[current_step - 1].price

C23_Penalty(bal) ==
    IF bal < 0 THEN (initial_balance * 5) \div 10
    ELSE IF 2 * bal < initial_balance THEN initial_balance \div 10 ELSE 0

\* C23: the history is append-only within an episode: a step that does not run
\* out of data appends exactly one record with the step's index, action,
\* post-action balance, shares_held and reward (penalty included); step never
\* changes or removes a record, and only reset empties the history.
C23_HistoryAppendOnly ==
    [][/\ Returned =>
            \E a \in Actions :
                episode_history' = Append(episode_history,
                    [step |-> current_step', price |-> df[current_step'].price,
                     rsi |-> df[current_step'].rsi, action |-> a,
                     balance |-> balance', shares_held |-> shares_held',
                     reward |-> StepPnl - C23_Penalty(balance')])
       /\ (IsStep /\ ~Returned) => (episode_history' = episode_history)
       /\ (~IsStep) => (episode_history' = <<>> /\ ret'.op = "reset")]_vars

\* a second record appended by a terminating step, the first one untouched
C23_Witness ==
    /\ StepReturned
    /\ Len(episode_history) >= 2
    /\ ret.done
    /\ episode_history[Len(episode_history)].reward = ret.reward
    /\ episode_history[1].step = current_step - (Len(episode_history) - 1)

\* C24: for every environment construction accepts, reset leaves current_step
\* on a row of the series, window + 1 <= current_step <= last index, on the
\* short-series fallback path too, and returns the observation of that row.
C24_ResetOnValidRow ==
    (ret.op = "reset") =>
        /\ ret.raised = "none"
        /\ window + 1 <= current_step
        /\ current_step <= len(df) - 1
        /\ ret.obs[1] = df[current_step].price

\* the fallback path on the shortest series construction accepts
C24_Witness ==
    /\ ret.op = "reset"
    /\ ret.raised = "none"
    /\ len(df) = window + 2
    /\ current_step = len(df) - 1

C25_WitnessRuin ==
    /\ StepReturned
    /\ ret.done
    /\ balance < 0
    /\ episode_done

\* C26: run_strategy opens a new put position only when no earlier one is
\* still active: for a strictly increasing date index no trade of the trade
\* log has an entry date before the expiry date of an earlier logged trade.
C26_NoOverlappingPositions ==
    \A a \in 1 .. Len(trade_log) : \A b \in 1 .. Len(trade_log) :
        (a < b) => ~(trade_log[b].entry_date < trade_log[a].expiry_date)

\* the non-zero values of a series, in order
NonZero(series) == SelectSeq(series, LAMBDA v : v # 0)

\* C27: for every input series over {-1, 0, 1} the non-zero values of the
\* output of filter_signals strictly alternate in sign, the output is as long
\* as the input, and an output is non-zero only where the input has that value.
C27_FilterAlternates ==
    (filtered # <<>>) =>
        /\ Len(filtered) = Len(signal_series)
        /\ \A k \in 1 .. Len(filtered) :
               /\ filtered[k] \in {-1, 0, 1}
               /\ (filtered[k] # 0) => (filtered[k] = signal_series[k])
        /\ \A k \in 1 .. (Len(NonZero(filtered)) - 1) :
               NonZero(filtered)[k + 1] = 0 - NonZero(filtered)[k]

\* repeated buys around a hold and a sell after them: one buy and one sell
\* are let through
C27_Witness ==
    /\ Len(filtered) = Len(signal_series)
    /\ Len(signal_series) >= 4
    /\ signal_series[1] = 1
    /\ signal_series[2] = 0
    /\ signal_series[3] = 1
    /\ signal_series[4] = -1
    /\ filtered[3] = 0
    /\ Len(NonZero(filtered)) >= 2

====
